---- MODULE Spec2Model ----
(***************************************************************************)
(* Model of the tenant rent prediction app (src/app2.py): the due date     *)
(* calculator, the payment status classifier and the history store kept in *)
(* tenant_history.csv, driven by Streamlit script runs.                    *)
(*                                                                         *)
(* A calendar date is a triple <<year, month, day>>.  A table cell is a    *)
(* record [k, s, ymd]: k = "nan" is pandas' NaN, k = "str" is the text s,  *)
(* k = "iso" is text of the shape YYYY-MM-DD holding the digits ymd (which *)
(* need not name a day of the calendar).                                   *)
(***************************************************************************)
EXTENDS Integers, Sequences, FiniteSets, TLC

VARIABLES
    today,        \* the clock: datetime.now().date()
    modelFile,    \* does tenant_model.joblib exist
    file,         \* tenant_history.csv: [exists, tenantCols, rows]
    history_df,   \* main's history_df when the last script run ended
    screen,       \* what the last script run rendered
    csv,          \* the text the last run handed to its download button
    last,         \* the handler that ran last
    call,         \* a direct call of one of the module's functions
    appended      \* history: the rows appended since the store was empty

vars == <<today, modelFile, file, history_df, screen, csv, last, call, appended>>

----------------------------------------------------------------------------
(* Bounds of the model *)

MaxRecords == 2

MaxTicks == 1

----------------------------------------------------------------------------
(* The proleptic Gregorian calendar of datetime.date / pandas.Timestamp *)

IsLeap(y) == (y % 4 = 0) /\ ((y % 100 # 0) \/ (y % 400 = 0))

\* datetime._DAYS_IN_MONTH: the month lengths of a common year
DAYS_IN_MONTH(m) ==
    IF m = 2 THEN 28 ELSE IF m \in {4, 6, 9, 11} THEN 30 ELSE 31

RECURSIVE DAYS_BEFORE_MONTH(_)
DAYS_BEFORE_MONTH(m) ==
    IF m <= 1 THEN 0 ELSE DAYS_BEFORE_MONTH(m - 1) + DAYS_IN_MONTH(m - 1)

DaysInMonth(y, m) ==
    IF m = 2 /\ IsLeap(y) THEN 29 ELSE DAYS_IN_MONTH(m)

DaysBeforeYear(y) ==
    LET p == y - 1 IN p * 365 + (p \div 4) - (p \div 100) + (p \div 400)

DaysBeforeMonth(y, m) ==
    DAYS_BEFORE_MONTH(m) + (IF m > 2 /\ IsLeap(y) THEN 1 ELSE 0)

\* date.toordinal(): 0001-01-01 is day 1
toordinal(d) == DaysBeforeYear(d[1]) + DaysBeforeMonth(d[1], d[2]) + d[3]

\* fromordinal taking every fourth year for a leap year
fromordinal_julian(n) ==
    LET n0   == n - 1
        n400 == n0 \div 146097
        r400 == n0 % 146097
        n100 == r400 \div 36524
        r100 == r400 % 36524
        n4   == r100 \div 1461
        r4   == r100 % 1461
        n1   == r4 \div 365
        r1   == r4 % 365
        year == n400 * 400 + 1 + n100 * 100 + n4 * 4 + n1
        leap == (n1 = 3)
        mon0 == (r1 + 50) \div 32
        pre0 == DAYS_BEFORE_MONTH(mon0) + (IF mon0 > 2 /\ leap THEN 1 ELSE 0)
        back == pre0 > r1
        mon  == IF back THEN mon0 - 1 ELSE mon0
        pre  == IF back
                THEN pre0 - (DAYS_IN_MONTH(mon)
                             + (IF mon = 2 /\ leap THEN 1 ELSE 0))
                ELSE pre0
    IN  IF n1 = 4 \/ n100 = 4
        THEN <<year - 1, 12, 31>>
        ELSE <<year, mon, r1 - pre + 1>>

\* date.fromordinal(n), as datetime._ord2ymd computes it
fromordinal(n) ==
    LET n0   == n - 1
        n400 == n0 \div 146097
        r400 == n0 % 146097
        n100 == r400 \div 36524
        r100 == r400 % 36524
        n4   == r100 \div 1461
        r4   == r100 % 1461
        n1   == r4 \div 365
        r1   == r4 % 365
        year == n400 * 400 + 1 + n100 * 100 + n4 * 4 + n1
        leap == (n1 = 3) /\ ((n4 # 24) \/ (n100 = 3))
        mon0 == (r1 + 50) \div 32
        pre0 == DAYS_BEFORE_MONTH(mon0) + (IF mon0 > 2 /\ leap THEN 1 ELSE 0)
        back == pre0 > r1
        mon  == IF back THEN mon0 - 1 ELSE mon0
        pre  == IF back
                THEN pre0 - (DAYS_IN_MONTH(mon)
                             + (IF mon = 2 /\ leap THEN 1 ELSE 0))
                ELSE pre0
    IN  IF n1 = 4 \/ n100 = 4
        THEN <<year - 1, 12, 31>>
        ELSE <<year, mon, r1 - pre + 1>>

\* date + timedelta(days = n)
AddDays(d, n) == fromordinal(toordinal(d) + n)

----------------------------------------------------------------------------
(* Table cells, and their trip through the CSV file *)

NoDate == <<0, 0, 0>>

NaN == [k |-> "nan", s |-> "", ymd |-> NoDate]

Str(s) == [k |-> "str", s |-> s, ymd |-> NoDate]

Iso(d) == [k |-> "iso", s |-> "", ymd |-> d]

\* date.strftime("%Y-%m-%d") and str(date)
strftime(d) == Iso(d)

\* the texts pandas.read_csv reads as a missing value
NaTexts == {"", "NA", "N/A", "n/a", "nan", "NaN", "null", "NULL"}

\* DataFrame.to_csv on one cell: a missing value is written as no text
to_csv_cell(c) == IF c.k = "nan" THEN Str("") ELSE c

\* a read_csv that takes no text for a missing value (keep_default_na=False)
read_csv_cell_keep_text(t) == t

\* pandas.read_csv on one cell of text
read_csv_cell(t) == IF t.k = "str" /\ t.s \in NaTexts THEN NaN ELSE t

\* pd.isna(x) or x == ""
IsBlank(c) == c.k = "nan" \/ (c.k = "str" /\ c.s = "")

\* pd.to_datetime(x) on a cell that is not blank: does it raise, and the day
to_datetime(c) ==
    IF c.k = "iso"
       /\ c.ymd[1] >= 1 /\ c.ymd[2] \in 1..12
       /\ c.ymd[3] >= 1 /\ c.ymd[3] <= DaysInMonth(c.ymd[1], c.ymd[2])
    THEN [raised |-> FALSE, ord |-> toordinal(c.ymd)]
    ELSE [raised |-> TRUE, ord |-> 0]

----------------------------------------------------------------------------
(* The two module-level functions *)

calculate_due_date(previous_date, frequency_days) ==
    IF IsBlank(previous_date) THEN Str("")
    ELSE LET prev_date == to_datetime(previous_date)
         IN  IF prev_date.raised THEN Str("")
             ELSE strftime(fromordinal(prev_date.ord + frequency_days))

\* the classifier with the Due Soon window one day short
get_payment_status_short_window(due_date, now) ==
    IF IsBlank(due_date) THEN "Unknown"
    ELSE LET due == to_datetime(due_date)
             tod == toordinal(now)
         IN  IF due.raised THEN "Unknown"
             ELSE IF due.ord < tod THEN "Overdue"
             ELSE IF due.ord = tod THEN "Due Today"
             ELSE IF due.ord - tod < 7 THEN "Due Soon"
             ELSE "Upcoming"

get_payment_status(due_date, now) ==
    IF IsBlank(due_date) THEN "Unknown"
    ELSE LET due == to_datetime(due_date)
             tod == toordinal(now)
         IN  IF due.raised THEN "Unknown"
             ELSE IF due.ord < tod THEN "Overdue"
             ELSE IF due.ord = tod THEN "Due Today"
             ELSE IF due.ord - tod <= 7 THEN "Due Soon"
             ELSE "Upcoming"

----------------------------------------------------------------------------
(* The history table.  A row keeps the cells the handlers read or write:   *)
(* City of the property columns, and the tenant columns Previous Payment   *)
(* Date, Next Payment Due Date and Payment Status.                         *)

Statuses == {"Unknown", "Overdue", "Due Today", "Due Soon", "Upcoming"}

Row(city, prev, due, status) ==
    [city |-> city, prev |-> prev, due |-> due, status |-> status]

NoFile == [exists |-> FALSE, tenantCols |-> FALSE, rows |-> <<>>]

\* pd.read_csv on one line of the file; a tenant column the file lacks is
\* added holding ""
read_csv_row(tenantCols, t) ==
    Row(read_csv_cell(t.city),
        IF tenantCols THEN read_csv_cell(t.prev) ELSE Str(""),
        IF tenantCols THEN read_csv_cell(t.due) ELSE Str(""),
        IF tenantCols THEN read_csv_cell(t.status) ELSE Str(""))

load_history(f) ==
    IF f.exists
    THEN [i \in 1..Len(f.rows) |-> read_csv_row(f.tenantCols, f.rows[i])]
    ELSE <<>>

to_csv_row(r) ==
    Row(to_csv_cell(r.city), to_csv_cell(r.prev),
        to_csv_cell(r.due), to_csv_cell(r.status))

\* history_df.to_csv(index=False): the lines of text, one per row
to_csv_text(df) == [i \in 1..Len(df) |-> to_csv_row(df[i])]

\* history_df.to_csv(HISTORY_FILE, index=False)
to_csv(df) == [exists |-> TRUE, tenantCols |-> TRUE, rows |-> to_csv_text(df)]

\* a concat that puts the new row first
concat_front(df, entry) == <<entry>> \o df

\* pd.concat([history_df, history_entry], ignore_index=True)
concat(df, entry) == Append(df, entry)

\* a recalculation that moves an overdue row's due date on by a month
apply_status_rollover(df, now) ==
    [i \in 1..Len(df) |->
        IF get_payment_status(df[i].due, now) = "Overdue"
        THEN [df[i] EXCEPT !.status = Str("Overdue"),
                           !.due = calculate_due_date(df[i].due, 30)]
        ELSE [df[i] EXCEPT !.status = Str(get_payment_status(df[i].due, now))]]

\* a recalculation that trusts a status the file already holds
apply_status_if_blank(df, now) ==
    [i \in 1..Len(df) |->
        IF IsBlank(df[i].status)
        THEN [df[i] EXCEPT !.status = Str(get_payment_status(df[i].due, now))]
        ELSE df[i]]

\* history_df['Payment Status'] =
\*     history_df['Next Payment Due Date'].apply(get_payment_status)
apply_status(df, now) ==
    [i \in 1..Len(df) |->
        [df[i] EXCEPT !.status = Str(get_payment_status(df[i].due, now))]]

\* a count of the four statuses the overview shows, Unknown left out
value_counts_shown(df) ==
    [s \in {df[i].status.s : i \in 1..Len(df)} \ {"Unknown"} |->
        Cardinality({i \in 1..Len(df) : df[i].status.s = s})]

\* tenant_summary['Payment Status'].value_counts(): the values present, counted
value_counts(df) ==
    [s \in {df[i].status.s : i \in 1..Len(df)} |->
        Cardinality({i \in 1..Len(df) : df[i].status.s = s})]

\* status_counts.get(s, 0)
get(counts, s) == IF s \in DOMAIN counts THEN counts[s] ELSE 0

\* a drop that removes the last row whatever the label
drop_last(df, label) ==
    IF label \in 0..(Len(df) - 1)
    THEN [raised |-> FALSE, df |-> SubSeq(df, 1, Len(df) - 1)]
    ELSE [raised |-> TRUE, df |-> df]

\* history_df.drop(index=label, inplace=True); reset_index(drop=True):
\* a label that is not in the index raises KeyError and drops nothing
drop(df, label) ==
    IF label \in 0..(Len(df) - 1)
    THEN [raised |-> FALSE,
          df |-> [i \in 1..(Len(df) - 1) |->
                     IF i < label + 1 THEN df[i] ELSE df[i + 1]]]
    ELSE [raised |-> TRUE, df |-> df]

\* a number input that has no max_value
number_input_no_max(value, min_value, max_value) == value >= min_value

\* st.number_input(..., min_value, max_value): the values it can hold
number_input(value, min_value, max_value) ==
    value >= min_value /\ value <= max_value

\* the sidebar's choice of the payment frequency
frequency_days(Payment_Frequency, custom_days) ==
    IF Payment_Frequency = "Custom" THEN custom_days
    ELSE IF Payment_Frequency = "Monthly (30 days)" THEN 30
    ELSE 90

\* Next_Payment_Due_Date as main computes it from the date input
Next_Payment_Due_Date(Previous_Payment_Date, days) ==
    strftime(AddDays(Previous_Payment_Date, days))

\* the row the predict button appends
history_entry(City, Previous_Payment_Date, days, now) ==
    LET due == Next_Payment_Due_Date(Previous_Payment_Date, days)
    IN  Row(Str(City), strftime(Previous_Payment_Date), due,
            Str(get_payment_status(due, now)))

NoCounts == [s \in {} |-> 0]

NoMetrics == [s \in {"Overdue", "Due Soon", "Due Today", "Upcoming"} |-> 0]

Blank(kind) ==
    [kind |-> kind, table |-> <<>>, status_counts |-> NoCounts,
     metrics |-> NoMetrics, delete_index |-> 0]

\* the Tenant Management Dashboard drawn from the frame df, whose statuses
\* have been recalculated
Dashboard(df) ==
    IF df # <<>>
    THEN LET status_counts == value_counts(df)
         IN  [kind |-> "dashboard", table |-> df,
              status_counts |-> status_counts,
              metrics |-> [s \in DOMAIN NoMetrics |-> get(status_counts, s)],
              delete_index |-> 0]
    ELSE Blank("info")

----------------------------------------------------------------------------
(* What the environment supplies: the clock and the sidebar's values *)

StartDay == <<2024, 2, 29>>

\* the calendar's next day
DayAfter(d) ==
    IF d[3] < DaysInMonth(d[1], d[2]) THEN <<d[1], d[2], d[3] + 1>>
    ELSE IF d[2] < 12 THEN <<d[1], d[2] + 1, 1>>
    ELSE <<d[1] + 1, 1, 1>>

\* the day n days after d, a month at a time
RECURSIVE Advance(_, _)
Advance(d, n) ==
    IF d[3] + n <= DaysInMonth(d[1], d[2]) THEN <<d[1], d[2], d[3] + n>>
    ELSE Advance(DayAfter(<<d[1], d[2], DaysInMonth(d[1], d[2])>>),
                 n - (DaysInMonth(d[1], d[2]) - d[3]) - 1)

Days == {Advance(StartDay, k) : k \in 0..MaxTicks}

\* "NA" is one of the texts pandas.read_csv reads as a missing value
Cities == {"Pune", "NA"}

PaymentDates == {<<2024, 1, 30>>}

Frequencies == {"Monthly (30 days)", "Quarterly (90 days)", "Custom"}

CustomDays == {38}

\* a history file left by the earlier version of the app, which has no
\* tenant columns
LegacyRow == Row(Str("Mumbai"), Str(""), Str(""), Str(""))

LegacyFiles ==
    {[exists |-> TRUE, tenantCols |-> FALSE, rows |-> rows] :
        rows \in {<<>>, <<LegacyRow>>}}

NoCsv == [taken |-> FALSE, rows |-> <<>>]

----------------------------------------------------------------------------
(* The module imported instead of run: one call of one of its functions *)

NoCall == [fn |-> "none", arg |-> NaN, days |-> 0, done |-> FALSE, result |-> NaN]

Call(fn, arg, days) ==
    [fn |-> fn, arg |-> arg, days |-> days, done |-> FALSE, result |-> NaN]

\* texts that name no day, and that are no date at all
BadDates == {Iso(<<2024, 2, 30>>), Iso(<<2023, 2, 29>>), Iso(<<2024, 13, 1>>),
             Iso(<<2024, 4, 31>>), Str("soon")}

BlankCells == {NaN, Str("")}

DueDates == {Advance(<<2024, 2, 18>>, k) : k \in 0..24}

ReferenceDates ==
    {<<2024, 1, 30>>, <<2024, 2, 28>>, <<2024, 2, 29>>, <<2023, 1, 30>>,
     <<2023, 12, 31>>, <<2024, 12, 31>>, <<2000, 2, 28>>, <<1900, 2, 28>>,
     <<2100, 2, 28>>, <<2024, 5, 1>>}

FrequencyDays == {1, 2, 30, 38, 90, 365}

CallInputs ==
    {Call("get_payment_status", c, 0) :
        c \in BlankCells \cup BadDates \cup {Iso(d) : d \in DueDates}}
    \cup
    {Call("calculate_due_date", c, f) :
        c \in BlankCells \cup BadDates \cup {Iso(d) : d \in ReferenceDates},
        f \in FrequencyDays}

Call_get_payment_status ==
    /\ call.fn = "get_payment_status" /\ ~call.done
    /\ call' = [call EXCEPT !.done = TRUE,
                            !.result = Str(get_payment_status(call.arg, today))]
    /\ UNCHANGED <<today, modelFile, file, history_df, screen, csv, last, appended>>

Call_calculate_due_date ==
    /\ call.fn = "calculate_due_date" /\ ~call.done
    /\ call' = [call EXCEPT !.done = TRUE,
                            !.result = calculate_due_date(call.arg, call.days)]
    /\ UNCHANGED <<today, modelFile, file, history_df, screen, csv, last, appended>>

----------------------------------------------------------------------------
(* The script runs of main().  Every run starts at load_model and          *)
(* load_history; a run that called st.rerun() is followed by a plain run.  *)

\* a load_model that does not stop the script
load_model_no_stop == TRUE

\* load_model returns: the model file exists
load_model == modelFile

\* the dashboard's first step: the statuses of a table that is not empty
recalculate(df, now) == IF df # <<>> THEN apply_status(df, now) ELSE df

\* load_model stops the script
Halt ==
    /\ call = NoCall
    /\ ~load_model
    /\ screen' = Blank("error")
    /\ csv' = NoCsv
    /\ last' = "halt"
    /\ UNCHANGED <<today, modelFile, file, history_df, call, appended>>

\* a run in which no button is pressed
View ==
    /\ call = NoCall
    /\ load_model
    /\ LET df == recalculate(load_history(file), today)
       IN  /\ history_df' = df
           /\ screen' = Dashboard(df)
    /\ csv' = NoCsv
    /\ last' = "view"
    /\ UNCHANGED <<today, modelFile, file, call, appended>>

\* the run in which "Predict Rent" is pressed
PredictRent(City, Previous_Payment_Date, Payment_Frequency, custom_days) ==
    /\ call = NoCall
    /\ load_model
    /\ last # "delete"
    /\ Len(load_history(file)) < MaxRecords
    /\ LET days  == frequency_days(Payment_Frequency, custom_days)
           entry == history_entry(City, Previous_Payment_Date, days, today)
           df1   == concat(load_history(file), entry)
           df2   == recalculate(df1, today)
       IN  /\ file' = to_csv(df1)
           /\ history_df' = df2
           /\ screen' = Dashboard(df2)
           /\ appended' = IF appended.valid
                          THEN [appended EXCEPT !.rows = Append(@, entry)]
                          ELSE appended
    /\ csv' = NoCsv
    /\ last' = "predict"
    /\ UNCHANGED <<today, modelFile, call>>

\* a delete run that does not write the file
DeleteRow_unsaved(delete_index) ==
    /\ call = NoCall
    /\ load_model
    /\ last # "delete"
    /\ load_history(file) # <<>>
    /\ LET df1 == recalculate(load_history(file), today)
           d   == drop(df1, delete_index)
       IN  /\ number_input(delete_index, 0, Len(df1) - 1)
           /\ screen' = [Dashboard(df1) EXCEPT
                             !.kind = IF d.raised THEN "KeyError" ELSE "deleted",
                             !.delete_index = delete_index]
           /\ history_df' = d.df
           /\ last' = IF d.raised THEN "raised" ELSE "delete"
           /\ appended' = [valid |-> ~d.raised /\ d.df = <<>>, rows |-> <<>>]
    /\ csv' = NoCsv
    /\ UNCHANGED <<today, modelFile, file, call>>

\* the run in which "Delete Row" is pressed, the number input holding
\* delete_index
DeleteRow(delete_index) ==
    /\ call = NoCall
    /\ load_model
    /\ last # "delete"
    /\ load_history(file) # <<>>
    /\ LET df1 == recalculate(load_history(file), today)
           d   == drop(df1, delete_index)
       IN  /\ number_input(delete_index, 0, Len(df1) - 1)
           /\ screen' = [Dashboard(df1) EXCEPT
                             !.kind = IF d.raised THEN "KeyError" ELSE "deleted",
                             !.delete_index = delete_index]
           /\ history_df' = d.df
           /\ file' = IF d.raised THEN file ELSE to_csv(d.df)
           /\ last' = IF d.raised THEN "raised" ELSE "delete"
           /\ appended' = [valid |-> ~d.raised /\ d.df = <<>>, rows |-> <<>>]
    /\ csv' = NoCsv
    /\ UNCHANGED <<today, modelFile, call>>

\* the run in which "Export Tenant Data" is pressed
ExportData ==
    /\ call = NoCall
    /\ load_model
    /\ last # "delete"
    /\ load_history(file) # <<>>
    /\ LET df1 == recalculate(load_history(file), today)
       IN  /\ history_df' = df1
           /\ screen' = Dashboard(df1)
           /\ csv' = [taken |-> TRUE, rows |-> to_csv_text(df1)]
    /\ last' = "export"
    /\ UNCHANGED <<today, modelFile, file, call, appended>>

\* midnight passes
Tick ==
    /\ call = NoCall
    /\ toordinal(today) - toordinal(StartDay) < MaxTicks
    /\ today' = DayAfter(today)
    /\ UNCHANGED <<modelFile, file, history_df, screen, csv, last, call, appended>>

\* tenant_model.joblib is put beside the script, or taken away
UploadModel ==
    /\ call = NoCall
    /\ ~modelFile
    /\ modelFile' = TRUE
    /\ UNCHANGED <<today, file, history_df, screen, csv, last, call, appended>>

RemoveModel ==
    /\ call = NoCall
    /\ modelFile
    /\ modelFile' = FALSE
    /\ UNCHANGED <<today, file, history_df, screen, csv, last, call, appended>>

Init ==
    /\ history_df = <<>>
    /\ screen = Blank("none")
    /\ csv = NoCsv
    /\ last = "none"
    /\ \/ /\ call = NoCall
          /\ today = StartDay
          /\ modelFile \in BOOLEAN
          /\ file \in {NoFile} \cup LegacyFiles
       \/ /\ call \in CallInputs
          /\ today \in Days
          /\ modelFile = FALSE
          /\ file = NoFile
    /\ appended = [valid |-> file.rows = <<>>, rows |-> <<>>]

Next ==
    \/ Call_get_payment_status
    \/ Call_calculate_due_date
    \/ Halt
    \/ View
    \/ \E City \in Cities, Previous_Payment_Date \in PaymentDates,
          Payment_Frequency \in Frequencies, custom_days \in CustomDays :
          PredictRent(City, Previous_Payment_Date, Payment_Frequency, custom_days)
    \/ \E delete_index \in 0..MaxRecords : DeleteRow(delete_index)
    \/ ExportData
    \/ Tick
    \/ UploadModel
    \/ RemoveModel

Spec == Init /\ [][Next]_vars

----------------------------------------------------------------------------
(* The calendar, read off day by day, for stating the properties *)

\* the text c names a day of the calendar
IsCalendarDate(c) ==
    /\ c.k = "iso"
    /\ c.ymd[1] >= 1 /\ c.ymd[2] \in 1..12 /\ c.ymd[3] \in 1..31
    /\ \/ c.ymd[3] = 1
       \/ DayAfter(<<c.ymd[1], c.ymd[2], c.ymd[3] - 1>>) = c.ymd

\* day a is earlier than day b
Before(a, b) ==
    \/ a[1] < b[1]
    \/ a[1] = b[1] /\ a[2] < b[2]
    \/ a[1] = b[1] /\ a[2] = b[2] /\ a[3] < b[3]

\* the status the rules give the due date text c on the day now
Classified(c, now) ==
    IF ~IsCalendarDate(c) THEN "Unknown"
    ELSE IF Before(c.ymd, now) THEN "Overdue"
    ELSE IF c.ymd = now THEN "Due Today"
    ELSE IF \E k \in 1..7 : c.ymd = Advance(now, k) THEN "Due Soon"
    ELSE "Upcoming"

----------------------------------------------------------------------------
(* C1: get_payment_status returns exactly one of the five statuses: Unknown *)
(* exactly when the due date is missing, empty or names no calendar day,    *)
(* and otherwise Overdue before today, Due Today on today, Due Soon from 1  *)
(* to 7 days ahead and Upcoming beyond 7 days; so today + 7 days is Due     *)
(* Soon and today + 8 days is Upcoming.                                     *)
C1_StatusByRule ==
    (call.fn = "get_payment_status" /\ call.done) =>
        /\ call.result.k = "str"
        /\ call.result.s \in Statuses
        /\ call.result.s = Classified(call.arg, today)
        /\ (call.result.s = "Unknown") <=> ~IsCalendarDate(call.arg)
        /\ call.arg = Iso(Advance(today, 7)) => call.result.s = "Due Soon"
        /\ call.arg = Iso(Advance(today, 8)) => call.result.s = "Upcoming"

\* the call classified the due date eight days ahead
C1_Witness ==
    /\ call.fn = "get_payment_status" /\ call.done
    /\ call.arg = Iso(Advance(today, 8))
    /\ call.result = Str("Upcoming")

----------------------------------------------------------------------------
\* the frequency in days the sidebar's choice stands for
ChosenDays(Payment_Frequency, custom_days) ==
    CASE Payment_Frequency = "Monthly (30 days)" -> 30
      [] Payment_Frequency = "Quarterly (90 days)" -> 90
      [] Payment_Frequency = "Custom" -> custom_days

\* calculate_due_date returned the day f days after a calendar day, and the
\* empty text for a reference date that is missing, empty or no calendar day
DueDateOfCall ==
    (call.fn = "calculate_due_date" /\ call.done) =>
        IF IsCalendarDate(call.arg)
        THEN call.result = Iso(Advance(call.arg.ymd, call.days))
        ELSE call.result = Str("")

\* the row a predict run appends holds the date input and the day the
\* chosen number of days after it
DueDateOfPredict ==
    \A City \in Cities, Previous_Payment_Date \in PaymentDates,
       Payment_Frequency \in Frequencies, custom_days \in CustomDays :
        PredictRent(City, Previous_Payment_Date, Payment_Frequency, custom_days)
        => LET row == history_df'[Len(history_df')]
               put == file'.rows[Len(file'.rows)]
               due == Iso(Advance(Previous_Payment_Date,
                                  ChosenDays(Payment_Frequency, custom_days)))
           IN  /\ row.prev = Iso(Previous_Payment_Date)
               /\ row.due = due
               /\ put.prev = Iso(Previous_Payment_Date)
               /\ put.due = due

(* C2: calculate_due_date(d, f) is the day exactly f calendar days after   *)
(* the calendar day d, and the empty text, never a failure, when d is      *)
(* missing, empty or unparseable; and every row a predict run appends has  *)
(* Next Payment Due Date = Previous Payment Date + the chosen frequency    *)
(* (30 for Monthly, 90 for Quarterly, the entered value for Custom).       *)
C2_DueDateExact == [](DueDateOfCall) /\ [][DueDateOfPredict]_vars

\* a call crossed the end of February of a century year that is no leap year
C2_Witness ==
    /\ call.fn = "calculate_due_date" /\ call.done
    /\ call.arg = Iso(<<2100, 2, 28>>) /\ call.days = 1
    /\ call.result = Iso(<<2100, 3, 1>>)

----------------------------------------------------------------------------
(* C3: deleting at index i of a store of n rows, 0 <= i < n, removes       *)
(* exactly the row at position i: n - 1 rows are left, the rows before i   *)
(* keep their positions and every row after i moves down by one, in the    *)
(* same order.  screen.table is the table the delete run drew before the   *)
(* drop, history_df the table after it.                                    *)
C3_DeleteRemovesRow ==
    last = "delete" =>
        LET old == screen.table
            i   == screen.delete_index
        IN  /\ i \in 0..(Len(old) - 1)
            /\ Len(history_df) = Len(old) - 1
            /\ \A j \in 0..(Len(old) - 1) :
                /\ j < i => history_df[j + 1] = old[j + 1]
                /\ j > i => history_df[j] = old[j + 1]
            /\ file.rows = to_csv_text(history_df)

\* the first of two different rows was deleted, and the second moved down
C3_Witness ==
    /\ last = "delete"
    /\ Len(screen.table) = 2
    /\ screen.delete_index = 0
    /\ screen.table[1] # screen.table[2]
    /\ history_df = <<screen.table[2]>>

----------------------------------------------------------------------------
\* the delete run with the index i ends in an index error that is shown,
\* the file as it was
DeleteFails(i) ==
    /\ DeleteRow(i)
    /\ last' = "raised"
    /\ screen'.kind = "KeyError"
    /\ file' = file

\* the claim as stated: on the page a run has drawn, a delete with an index
\* below 0 or at or past the length can be asked for, and fails with an
\* index error
C4_Original ==
    (call = NoCall /\ load_model /\ last = "view") =>
        \A i \in (-1)..MaxRecords :
            (i < 0 \/ i >= Len(load_history(file))) => ENABLED DeleteFails(i)

(* C4, amended: a delete can be issued only with an index i in 0 <= i <    *)
(* length: the number input holds no other value, and for an empty store   *)
(* the page shows the "No tenant records yet" notice and no delete         *)
(* control.  So no delete run ends in an index error, and once a delete    *)
(* has emptied the store no further delete can run.                        *)
C4_NoDeleteOutOfRange ==
    /\ last # "raised"
    /\ screen.kind # "KeyError"
    /\ last = "delete" => screen.delete_index \in 0..(Len(screen.table) - 1)
    /\ \A i \in (-1)..(MaxRecords + 1) :
        (i < 0 \/ i >= Len(load_history(file))) => ~ENABLED DeleteRow(i)
    /\ (last = "view" /\ load_history(file) = <<>>) => screen.kind = "info"

\* a delete emptied the store, and the rerun drew the notice
C4_Witness ==
    /\ last = "view"
    /\ file.exists /\ file.tenantCols /\ file.rows = <<>>
    /\ history_df = <<>>
    /\ screen.kind = "info"
    /\ load_model
    /\ ~ENABLED DeleteRow(0)

----------------------------------------------------------------------------
\* the cells of a row other than the Payment Status
ButStatus(r) == <<r.city, r.prev, r.due>>

\* a script run of main(): the clock and the model file stay as they are
RunStep == call = NoCall /\ today' = today /\ modelFile' = modelFile

\* a row as the run after the one that wrote it reads it from the file
ReadBack(r) == read_csv_row(TRUE, to_csv_row(r))

\* the export holds the table of the run, and after k appends to an empty
\* store the k appended rows as the file gives them back, in the order of
\* the appends
ExportInOrder ==
    csv.taken =>
        /\ last = "export"
        /\ csv.rows = to_csv_text(history_df)
        /\ Len(csv.rows) = Len(file.rows)
        /\ appended.valid =>
            /\ Len(csv.rows) = Len(appended.rows)
            /\ \A i \in 1..Len(csv.rows) :
                /\ ButStatus(csv.rows[i])
                    = ButStatus(to_csv_row(ReadBack(appended.rows[i])))
                /\ csv.rows[i].prev = to_csv_cell(appended.rows[i].prev)
                /\ csv.rows[i].due = to_csv_cell(appended.rows[i].due)

\* no step rewrites an export: it is kept, or the next run lets it go, or
\* a new export run replaces it; a predict or delete run leaves none behind
ExportKept ==
    /\ (csv.taken /\ csv' # csv) =>
        /\ RunStep
        /\ csv' = NoCsv \/ last' = "export"
    /\ (RunStep /\ csv'.taken) => (last' = "export" /\ file' = file)

(* C5: after k appends and no delete, starting from an empty store, the    *)
(* export holds exactly k rows in insertion order, the i-th appended row   *)
(* at position i; and an export, once made, is a copy that no later        *)
(* delete or append alters.                                                *)
C5_ExportInsertionOrder == [](ExportInOrder) /\ [][ExportKept]_vars

\* two different rows were appended to an empty store and then exported
C5_Witness ==
    /\ csv.taken
    /\ appended.valid
    /\ Len(appended.rows) = 2
    /\ ButStatus(appended.rows[1]) # ButStatus(appended.rows[2])
    /\ Len(csv.rows) = 2

----------------------------------------------------------------------------
\* what a run draws, counts and exports carries the status of the day of
\* the run
FreshAtRun ==
    RunStep =>
        /\ \A i \in 1..Len(screen'.table) :
            screen'.table[i].status =
                Str(Classified(screen'.table[i].due, today'))
        /\ \A s \in Statuses :
            get(screen'.status_counts, s) =
                Cardinality({i \in 1..Len(screen'.table) :
                                Classified(screen'.table[i].due, today') = s})
        /\ csv'.taken =>
            \A i \in 1..Len(csv'.rows) :
                csv'.rows[i].status = Str(Classified(csv'.rows[i].due, today'))
        /\ load_model =>
            \/ /\ screen'.kind = "dashboard"
               /\ screen'.table # <<>>
               /\ Len(screen'.table) = Len(load_history(file'))
            \/ /\ screen'.kind = "deleted"
               /\ last' = "delete"
               /\ Len(screen'.table) = Len(load_history(file))
            \/ /\ screen'.kind = "info"
               /\ load_history(file') = <<>>

(* C6: the Payment Status is never stale: whenever a run displays,         *)
(* summarizes or exports the table, every row's status is the              *)
(* classification of its Next Payment Due Date on the day of that run,     *)
(* whatever status the file held.                                          *)
C6_NeverStale == [][FreshAtRun]_vars

\* the file holds the status written on an earlier day, the page the
\* status of the day of the run
C6_Witness ==
    /\ last = "view"
    /\ screen.kind = "dashboard"
    /\ \E i \in 1..Len(screen.table) :
        /\ file.rows[i].status = Str("Due Today")
        /\ screen.table[i].status = Str("Overdue")

----------------------------------------------------------------------------
----------------------------------------------------------------------------
\* the Payment Status column of a table
StatusColumn(df) == [i \in 1..Len(df) |-> df[i].status]

(* C8: the recalculation of the statuses is idempotent: on any store and   *)
(* any one day, recalculating twice gives every row the status that        *)
(* recalculating once gives it.                                            *)
C8_RecalculateIdempotent ==
    \A t \in Days :
        \A df \in {load_history(file), history_df, screen.table} :
            StatusColumn(recalculate(recalculate(df, t), t))
                = StatusColumn(recalculate(df, t))

\* the store holds a row whose status in the file is not the status of
\* today, so that the first recalculation changes it
C8_Witness ==
    /\ last = "view"
    /\ load_history(file) # <<>>
    /\ \E i \in 1..Len(file.rows) :
        /\ load_history(file)[i].status = Str("Due Today")
        /\ recalculate(load_history(file), today)[i].status = Str("Overdue")

----------------------------------------------------------------------------
\* without the model file a run stops before it reads or writes the store;
\* and only a predict run, which needs the model, makes the store longer,
\* by one row
OnlyPredictAdds ==
    /\ ~modelFile =>
        /\ file' = file
        /\ history_df' = history_df
        /\ RunStep => (last' = "halt" /\ screen'.kind = "error" /\ ~csv'.taken)
    /\ Len(file'.rows) > Len(file.rows) =>
        /\ modelFile /\ RunStep
        /\ last' = "predict"
        /\ Len(file'.rows) = Len(file.rows) + 1
        /\ Len(history_df') = Len(load_history(file)) + 1
    /\ Len(history_df') > Len(load_history(file)) =>
        /\ modelFile /\ RunStep
        /\ last' = "predict"

(* C9: a row enters the store only through a predict run that completes:   *)
(* without the model file the run halts before any prediction, append,     *)
(* delete or flush and leaves the store, in memory and in the file, as it  *)
(* was; and no other step makes the store longer.                          *)
C9_OnlyPredictAdds == [][OnlyPredictAdds]_vars

\* a run halted with rows in the store
C9_Witness ==
    /\ last = "halt"
    /\ ~modelFile
    /\ screen.kind = "error"
    /\ file.rows # <<>>
    /\ history_df # <<>>

----------------------------------------------------------------------------
(* C10: after every predict run and every delete run the file has been     *)
(* written: it holds exactly the rows of the table in memory, in the same  *)
(* order, on all columns but the Payment Status, so the next run's load    *)
(* sees every append and delete made so far.                               *)
C10_FlushedAfterMutation ==
    last \in {"predict", "delete"} =>
        /\ file.exists /\ file.tenantCols
        /\ Len(file.rows) = Len(history_df)
        /\ \A i \in 1..Len(history_df) :
            ButStatus(file.rows[i]) = ButStatus(to_csv_row(history_df[i]))
        /\ Len(load_history(file)) = Len(history_df)
        /\ \A i \in 1..Len(history_df) :
            ButStatus(load_history(file)[i])
                = ButStatus(read_csv_row(TRUE, to_csv_row(history_df[i])))

\* a delete run took one of two rows and wrote the row that is left
C10_Witness ==
    /\ last = "delete"
    /\ Len(screen.table) = 2
    /\ Len(history_df) = 1
    /\ file.rows = to_csv_text(history_df)

----------------------------------------------------------------------------
\* the lines of the file after a run, against the lines before it: Same(a, b)
\* compares a line b of before with the line a that holds it after.  A
\* predict run keeps every line in place under the new one, a delete run
\* closes the gap at the deleted index, any other run writes nothing.
LinesFollow(Same(_, _)) ==
    RunStep =>
        /\ last' = "predict" =>
            /\ Len(file'.rows) = Len(file.rows) + 1
            /\ \A j \in 1..Len(file.rows) : Same(file'.rows[j], file.rows[j])
        /\ last' = "delete" =>
            /\ Len(file'.rows) = Len(file.rows) - 1
            /\ \A j \in 1..Len(file.rows) :
                /\ j < screen'.delete_index + 1 =>
                    Same(file'.rows[j], file.rows[j])
                /\ j > screen'.delete_index + 1 =>
                    Same(file'.rows[j - 1], file.rows[j])
        /\ last' \in {"view", "export", "halt"} => file' = file
        /\ last' \in {"view", "export"} =>
            /\ Len(history_df') = Len(file.rows)
            /\ Len(screen'.table) = Len(file.rows)
            /\ \A j \in 1..Len(file.rows) :
                ButStatus(history_df'[j]) = ButStatus(load_history(file)[j])
            /\ csv'.taken =>
                /\ Len(csv'.rows) = Len(file.rows)
                /\ \A j \in 1..Len(file.rows) :
                    Same(csv'.rows[j], file.rows[j])

\* the line a holds the cells of the line b, but for the Payment Status
SameButStatus(a, b) == ButStatus(a) = ButStatus(b)

\* the line a holds the cells of the line b as read_csv reads them: a cell
\* whose text read_csv takes for a missing value is written back empty,
\* every other cell as it was, the two dates among them
SameAsRead(a, b) ==
    /\ ButStatus(a) = ButStatus(to_csv_row(read_csv_row(TRUE, b)))
    /\ (b.city.k = "str" /\ b.city.s \notin NaTexts) => a.city = b.city
    /\ (b.city.k = "str" /\ b.city.s \in NaTexts) => a.city = Str("")
    /\ a.prev = b.prev
    /\ a.due = b.due

\* the claim as stated: every line that stays in the file keeps all its
\* cells but the Payment Status, and its order among the lines that stay
C11_Original == [][LinesFollow(SameButStatus)]_vars

(* C11: rows leave the store only whole, by a delete.  Across predict,     *)
(* view, export and delete runs every row that stays keeps its order among *)
(* the rows that stay, and keeps its cells other than the Payment Status   *)
(* as read_csv reads them: a text cell holding one of the texts read_csv   *)
(* takes for a missing value (such as "NA") is written back empty by the   *)
(* next predict or delete run, every other cell is kept as it was.  View   *)
(* and export runs change neither the number nor the order of the rows.    *)
C11_RowsKeptAsRead == [][LinesFollow(SameAsRead)]_vars

\* a row was appended with the City "NA", and the predict run after it
\* wrote the row back with an empty City
C11_Witness ==
    /\ last = "predict"
    /\ appended.valid
    /\ Len(appended.rows) = 2
    /\ appended.rows[1].city = Str("NA")
    /\ Len(file.rows) = 2
    /\ file.rows[1].city = Str("")
    /\ file.rows[1].prev = appended.rows[1].prev
    /\ file.rows[1].due = appended.rows[1].due

====
